---- MODULE Spec2Model ----
(***************************************************************************)
(* logplexc: the buffering client (Client in logplexc.go over MiniClient   *)
(* in minimal.go; multi.go repeats the same engine as Multi).  Goroutines  *)
(* are processes: the callers of BufferMessage, the token-supply           *)
(* goroutine, the periodic ticker goroutine, the caller of Close, and one  *)
(* process per spawned syncWorker.  Callers and workers run the same code  *)
(* and are interchangeable, so the callers inside BufferMessage are        *)
(* counted and the live workers are kept as a bag of their local states.   *)
(***************************************************************************)
EXTENDS Integers, Sequences, FiniteSets, Bags, TLC

\* ---------------------------------------------------------------- bounds
NumProducers == 1
MaxCalls == 2
MaxWorkers == 2
MaxConcurrency == 1

\* ------------------------------------------------------- program constants
StatusNoContent == 204
TimestampLen == 20
HostLen == 2
TokenLen == 7
ProcIdLen == 14

\* len(log) of the messages the callers submit: with it a frame is 62 bytes.
LogLens == {1}

\* Config values the client is constructed with (grind_test.go uses
\* RequestSizeTrigger 0 and 100*KB; here 0 and a threshold that the second
\* frame of a Bundle reaches), and at least one permit.
SizeTriggers == {0, 100}
Concurrencies == 1..MaxConcurrency

\* Config.TargetLogLatency, a time.Duration: a negative one, zero, and a
\* positive one (every positive interval makes the same ticker here).
TargetLogLatencies == {-1, 0, 1}

\* The outcomes of HttpClient.Do: a response with a status, or an error
\* and no response.
Responses ==
    { [err |-> FALSE, StatusCode |-> StatusNoContent],
      [err |-> FALSE, StatusCode |-> 200],
      [err |-> TRUE, StatusCode |-> 0] }

NoResponse == [err |-> FALSE, StatusCode |-> 0]

VARIABLES
    cfg,          \* Config: Concurrency, RequestSizeTrigger,
                  \* TargetLogLatency
    stats,        \* Client.Stats
    statLock,     \* Client.statLock: FALSE free, TRUE held
    bSwapLock,    \* MiniClient.bSwapLock: FALSE free, TRUE held
    b,            \* MiniClient.b, the active Bundle
    reqInFlight,  \* MiniClient.reqInFlight
    supplyI,      \* loop counter of the token supply goroutine
    supplyPc,     \* "loop", "send" (blocked in m.bucket <- true), "done"
    finalize,     \* TRUE once close(m.finalize) ran
    tickerOn,     \* FALSE once m.ticker.Stop() ran
    tickPending,  \* after Stop: a tick still waits in m.ticker.C
    periodicPc,   \* "select", "exited"
    inCall,       \* callers of BufferMessage past the finalize check
    lastRet,      \* what the BufferMessage call that returned last returned
    nCalls,       \* number of BufferMessage calls started
    nFramed,      \* number of frames written so far (the last frame's id)
    workers,      \* bag of the live syncWorker goroutines' local states
    crashed,      \* a syncWorker goroutine panicked: the process is gone
    client,       \* NewClient: "new" not called yet, "ok" returned a Client,
                  \* "panic" panicked in the caller
    nSwapped,     \* history: messages in all Bundles swapped out so far
    dropSeen,     \* history: ids of the frames that were in the active
                  \* Bundle when a worker found no token (kept by SpecDrops)
    reading       \* a caller of Client.Statistics holds statLock (followed
                  \* by SpecLocks; elsewhere the call is one silent step)

vars == << cfg, stats, statLock, bSwapLock, b, reqInFlight, supplyI, supplyPc,
           finalize, tickerOn, tickPending, periodicPc, inCall, lastRet,
           nCalls, nFramed, workers, crashed, client, nSwapped, dropSeen,
           reading >>

\* ---------------------------------------------------------------- Bundle
EmptyBundle == [NumberFramed |-> 0, Buffered |-> 0, outbox |-> << >>]

RECURSIVE Digits(_)
Digits(n) == IF n < 10 THEN 1 ELSE 1 + Digits(n \div 10)

\* len("<134>1 " + ts + " " + host + " " + token + " " + procId + " - - ")
PrefixLen == 7 + TimestampLen + 1 + HostLen + 1 + TokenLen + 1 + ProcIdLen + 5

\* Bytes fmt.Fprintf(&outbox, "%d %s%s", msgLen, syslogPrefix, log) writes.
FrameLen(logLen) ==
    LET msgLen == PrefixLen + logLen
    IN  Digits(msgLen) + 1 + msgLen

RECURSIVE OutboxLen(_)
OutboxLen(box) ==
    IF box = << >> THEN 0 ELSE box[1].len + OutboxLen(Tail(box))

\* Mutant: Buffered is the length of the frame just written, not outbox.Len().
MiniBufferMessageLastLen(bundle, id, logLen) ==
    LET box == Append(bundle.outbox, [id |-> id, len |-> FrameLen(logLen)])
    IN  [NumberFramed |-> bundle.NumberFramed + 1,
         Buffered |-> FrameLen(logLen),
         outbox |-> box]

\* Mutant: the frame is written in front of the frames already buffered.
MiniBufferMessagePrepend(bundle, id, logLen) ==
    LET box == << [id |-> id, len |-> FrameLen(logLen)] >> \o bundle.outbox
    IN  [NumberFramed |-> bundle.NumberFramed + 1,
         Buffered |-> OutboxLen(box),
         outbox |-> box]

\* MiniClient.BufferMessage's effect on the active Bundle.
MiniBufferMessage(bundle, id, logLen) ==
    LET box == Append(bundle.outbox, [id |-> id, len |-> FrameLen(logLen)])
    IN  [NumberFramed |-> bundle.NumberFramed + 1,
         Buffered |-> OutboxLen(box),
         outbox |-> box]

unsyncStats(bundle) ==
    [NumberFramed |-> bundle.NumberFramed, Buffered |-> bundle.Buffered]

\* ----------------------------------------------------------------- Stats
ZeroStats ==
    [Concurrency |-> 0, Total |-> 0, Dropped |-> 0, Cancelled |-> 0,
     Rejected |-> 0, Successful |-> 0, TotalRequests |-> 0,
     CancelRequests |-> 0, RejectRequests |-> 0, SuccessRequests |-> 0]

statReqTotalUnsync(st, s) ==
    [st EXCEPT !.Total = @ + s.NumberFramed, !.TotalRequests = @ + 1]

statReqSuccess(st, s) ==
    [statReqTotalUnsync(st, s) EXCEPT
        !.Successful = @ + s.NumberFramed, !.SuccessRequests = @ + 1]

statReqErr(st, s) ==
    [statReqTotalUnsync(st, s) EXCEPT
        !.Cancelled = @ + s.NumberFramed, !.CancelRequests = @ + 1]

\* Mutant: the rejection is counted without the totals.
statReqRejNoTotal(st, s) ==
    [st EXCEPT !.Rejected = @ + s.NumberFramed, !.RejectRequests = @ + 1]

statReqRej(st, s) ==
    [statReqTotalUnsync(st, s) EXCEPT
        !.Rejected = @ + s.NumberFramed, !.RejectRequests = @ + 1]

\* ------------------------------------------------------------------ Init
\* A Config is chosen and NewClient is about to be called with it; the
\* other variables hold what NewClient returns when it returns a Client:
\* empty Bundle, zero Stats, both goroutines started but not yet run.
Init ==
    /\ cfg \in [Concurrency : Concurrencies, RequestSizeTrigger : SizeTriggers,
                TargetLogLatency : TargetLogLatencies]
    /\ stats = ZeroStats
    /\ statLock = FALSE
    /\ bSwapLock = FALSE
    /\ b = EmptyBundle
    /\ reqInFlight = 0
    /\ supplyI = 0
    /\ supplyPc = "loop"
    /\ finalize = FALSE
    /\ tickerOn = TRUE
    /\ tickPending = FALSE
    /\ periodicPc = "select"
    /\ inCall = 0
    /\ lastRet = "none"
    /\ nCalls = 0
    /\ nFramed = 0
    /\ workers = EmptyBag
    /\ crashed = FALSE
    /\ client = "new"
    /\ nSwapped = 0
    /\ dropSeen = {}
    /\ reading = FALSE

\* ---------------------------------------------------------------- NewClient
\* time.NewTicker(d) panics when d is not positive ("non-positive interval
\* for NewTicker").
NewTickerPanics(d) == d <= 0

\* NewClient: NewMiniClient never returns an error; the Client literal calls
\* time.NewTicker(cfg.TargetLogLatency) before any goroutine is started, and
\* then the supply and the periodic goroutines start and the Client is
\* returned.
NewClient ==
    /\ client = "new"
    /\ client' = IF NewTickerPanics(cfg.TargetLogLatency) THEN "panic" ELSE "ok"
    /\ UNCHANGED << cfg, stats, statLock, bSwapLock, b, reqInFlight, supplyI,
                    supplyPc, finalize, tickerOn, tickPending, periodicPc,
                    inCall, lastRet, nCalls, nFramed, workers, crashed,
                    nSwapped, dropSeen, reading >>

\* The Client exists and its process is alive.
Running == client = "ok" /\ ~crashed

\* ------------------------------------------------------- go m.syncWorker()
\* The local state of a syncWorker goroutine: its position, the Bundle
\* PostMessages swapped out for it, and what HttpClient.Do gave it.
NewWorker == [pc |-> "start", b |-> EmptyBundle, resp |-> NoResponse]

Live == BagToSet(workers)

\* The workers at one of the positions pcs, as a bag, and their number.
WorkersAt(pcs) ==
    LET S == {x \in Live : x.pc \in pcs}
    IN  [x \in S |-> workers[x]]

NumAt(pcs) == BagCardinality(WorkersAt(pcs))

\* A slot is free for one more goroutine.
CanSpawn == BagCardinality(workers) < MaxWorkers

\* `go m.syncWorker()`
Spawned(ws) == ws (+) SetToBag({NewWorker})

\* One worker moves from local state old to local state new.
Moved(ws, old, new) == (ws (-) SetToBag({old})) (+) SetToBag({new})

\* The goroutine of a worker ends.
Ended(ws, old) == ws (-) SetToBag({old})

\* ------------------------------------------------- Client.BufferMessage
\* Mutant: BufferMessage does not look at m.finalize.
FinalizeNotChecked == FALSE

\* case _, _ = <-m.finalize: the receive succeeds once the channel is closed.
FinalizeFired == finalize

\* select on m.finalize: a closed client returns the error at once.
BufferMessageEnter ==
    /\ Running
    /\ inCall < NumProducers
    /\ nCalls < MaxCalls
    /\ nCalls' = nCalls + 1
    /\ IF FinalizeFired
          THEN lastRet' = "closed" /\ inCall' = inCall
          ELSE lastRet' = lastRet /\ inCall' = inCall + 1
    /\ UNCHANGED << cfg, stats, statLock, bSwapLock, b, reqInFlight, supplyI,
                    supplyPc, finalize, tickerOn, tickPending, periodicPc,
                    nFramed, workers, crashed,
                    client, nSwapped, dropSeen, reading >>

\* Mutant: the threshold is compared with the length read before the append.
SizeTriggeredStale(s) == b.Buffered >= cfg.RequestSizeTrigger

\* if s.Buffered >= m.RequestSizeTrigger
SizeTriggered(s) == s.Buffered >= cfg.RequestSizeTrigger

\* m.statLock.Lock(); s := m.c.BufferMessage(...) under bSwapLock; the size
\* trigger; the deferred statLock.Unlock(); return nil.  The log is the
\* call's argument; frames are numbered in the order of the appends.
BufferMessageBuffer ==
    /\ Running
    /\ inCall > 0
    /\ ~statLock
    /\ ~bSwapLock
    /\ \E l \in LogLens :
          LET nb == MiniBufferMessage(b, nFramed + 1, l)
              s == unsyncStats(nb)
          IN  /\ b' = nb
              /\ IF SizeTriggered(s)
                    THEN CanSpawn /\ workers' = Spawned(workers)
                    ELSE workers' = workers
    /\ nFramed' = nFramed + 1
    /\ inCall' = inCall - 1
    /\ lastRet' = "nil"
    /\ UNCHANGED << cfg, stats, statLock, bSwapLock, reqInFlight, supplyI,
                    supplyPc, finalize, tickerOn, tickPending, periodicPc,
                    nCalls, crashed,
                    client, nSwapped, dropSeen, reading >>

\* ------------------------------------------------ the token supply goroutine
\* Mutant: the loop test off by one, so one token too many is supplied.
SupplyMoreOffByOne == supplyI <= cfg.Concurrency

SupplyMore == supplyI < cfg.Concurrency

\* for i := 0; i < cfg.Concurrency; i += 1 { m.bucket <- true }: the loop
\* test; the send itself completes in the receiver's step.
SupplyLoop ==
    /\ Running
    /\ supplyPc = "loop"
    /\ supplyPc' = IF SupplyMore THEN "send" ELSE "done"
    /\ UNCHANGED << cfg, stats, statLock, bSwapLock, b, reqInFlight, supplyI,
                    finalize, tickerOn, tickPending, periodicPc, inCall,
                    lastRet, nCalls, nFramed, workers, crashed,
                    client, nSwapped, dropSeen, reading >>

\* ------------------------------------------------------ Client.syncWorker
\* atomic.AddInt32(&m.Stats.Concurrency, 1)
syncWorkerEnter(w) ==
    /\ Running
    /\ w.pc = "start"
    /\ stats' = [stats EXCEPT !.Concurrency = @ + 1]
    /\ workers' = Moved(workers, w, [w EXCEPT !.pc = "select"])
    /\ UNCHANGED << cfg, statLock, bSwapLock, b, reqInFlight, supplyI,
                    supplyPc, finalize, tickerOn, tickPending, periodicPc,
                    inCall, lastRet, nCalls, nFramed, crashed,
                    client, nSwapped, dropSeen, reading >>

\* The workers blocked in their deferred `m.bucket <- true` (the channel is
\* unbuffered, so a send waits for a receiver).
SendingWorkers == {x \in Live : x.pc \in {"send", "panicsend"}}

\* case <-m.bucket: the receive completes the supply goroutine's send.
syncWorkerAcquireInitial(w) ==
    /\ Running
    /\ w.pc = "select"
    /\ supplyPc = "send"
    /\ supplyI' = supplyI + 1
    /\ supplyPc' = "loop"
    /\ workers' = Moved(workers, w, [w EXCEPT !.pc = "post"])
    /\ UNCHANGED << cfg, stats, statLock, bSwapLock, b, reqInFlight, finalize,
                    tickerOn, tickPending, periodicPc, inCall, lastRet,
                    nCalls, nFramed, crashed,
                    client, nSwapped, dropSeen, reading >>

\* case <-m.bucket: the receive completes the send of a worker that is
\* returning; that worker goes on to its deferred decrement.
syncWorkerAcquireReleased(w) ==
    /\ Running
    /\ w.pc = "select"
    /\ \E snd \in SendingWorkers :
          workers' =
              Moved(Moved(workers, w, [w EXCEPT !.pc = "post"]), snd,
                    [snd EXCEPT !.pc = IF snd.pc = "send" THEN "dec"
                                                          ELSE "panicdec"])
    /\ UNCHANGED << cfg, stats, statLock, bSwapLock, b, reqInFlight, supplyI,
                    supplyPc, finalize, tickerOn, tickPending, periodicPc,
                    inCall, lastRet, nCalls, nFramed, crashed,
                    client, nSwapped, dropSeen, reading >>

\* default: return
syncWorkerNoToken(w) ==
    /\ Running
    /\ w.pc = "select"
    /\ supplyPc # "send"
    /\ SendingWorkers = {}
    /\ workers' = Moved(workers, w, [w EXCEPT !.pc = "dec"])
    /\ UNCHANGED << cfg, stats, statLock, bSwapLock, b, reqInFlight, supplyI,
                    supplyPc, finalize, tickerOn, tickPending, periodicPc,
                    inCall, lastRet, nCalls, nFramed, crashed,
                    client, nSwapped, dropSeen, reading >>

\* Mutant: bSwapLock is not released when the swap is done.
SwapUnlockMissing == TRUE

\* The lock after the swap closure returns (defer c.bSwapLock.Unlock()).
SwapUnlock == FALSE

\* Mutant: the swap leaves the active Bundle as it was.
SwapResetMissing == b

\* c.b.outbox = bytes.Buffer{}; c.b.nFramed = 0 (SwapBundle: c.b = &newB).
SwapReset == EmptyBundle

\* PostMessages: under bSwapLock, b = *c.b and the active Bundle is reset;
\* then c.reqInFlight.Add(1) and the request goes out.
PostMessagesSwap(w) ==
    /\ Running
    /\ w.pc = "post"
    /\ ~bSwapLock
    /\ workers' = Moved(workers, w, [w EXCEPT !.pc = "http", !.b = b])
    /\ b' = SwapReset
    /\ nSwapped' = nSwapped + b.NumberFramed
    /\ bSwapLock' = SwapUnlock
    /\ reqInFlight' = reqInFlight + 1
    /\ UNCHANGED << cfg, stats, statLock, supplyI, supplyPc, finalize,
                    tickerOn, tickPending, periodicPc, inCall, lastRet,
                    nCalls, nFramed, crashed, client, dropSeen, reading >>

\* PostMessages: c.HttpClient.Do(req) returns; deferred reqInFlight.Done().
PostMessagesDo(w) ==
    /\ Running
    /\ w.pc = "http"
    /\ \E r \in Responses :
          workers' = Moved(workers, w, [w EXCEPT !.pc = "ret", !.resp = r])
    /\ reqInFlight' = reqInFlight - 1
    /\ UNCHANGED << cfg, stats, statLock, bSwapLock, b, supplyI, supplyPc,
                    finalize, tickerOn, tickPending, periodicPc, inCall,
                    lastRet, nCalls, nFramed, crashed,
                    client, nSwapped, dropSeen, reading >>

\* Mutant: the token is handed back at the end of the function body and not
\* in a deferred call, so the panicking worker never releases it.
syncWorkerErrNoRelease(w) ==
    /\ Running
    /\ w.pc = "ret"
    /\ w.resp.err
    /\ ~statLock
    /\ stats' = statReqErr(stats, unsyncStats(w.b))
    /\ workers' = Moved(workers, w, [NewWorker EXCEPT !.pc = "panicdec"])
    /\ UNCHANGED << cfg, statLock, bSwapLock, b, reqInFlight, supplyI,
                    supplyPc, finalize, tickerOn, tickPending, periodicPc,
                    inCall, lastRet, nCalls, nFramed, crashed,
                    client, nSwapped, dropSeen, reading >>

\* if err != nil { m.statReqErr(&s) }, and then `defer resp.Body.Close()`
\* with resp == nil: a nil dereference.  The panic runs the deferred calls,
\* the first of which blocks in m.bucket <- true.
syncWorkerErr(w) ==
    /\ Running
    /\ w.pc = "ret"
    /\ w.resp.err
    /\ ~statLock
    /\ stats' = statReqErr(stats, unsyncStats(w.b))
    /\ workers' = Moved(workers, w, [NewWorker EXCEPT !.pc = "panicsend"])
    /\ UNCHANGED << cfg, statLock, bSwapLock, b, reqInFlight, supplyI,
                    supplyPc, finalize, tickerOn, tickPending, periodicPc,
                    inCall, lastRet, nCalls, nFramed, crashed,
                    client, nSwapped, dropSeen, reading >>

\* Mutant: the status comparison inverted.
ClassifiedInverted(st, resp, s) ==
    IF resp.StatusCode = StatusNoContent
       THEN statReqRej(st, s)
       ELSE statReqSuccess(st, s)

\* The Stats after the status check of a completed exchange.
Classified(st, resp, s) ==
    IF resp.StatusCode # StatusNoContent
       THEN statReqRej(st, s)
       ELSE statReqSuccess(st, s)

\* err == nil: the status check, then return: the deferred calls start with
\* resp.Body.Close() and block in m.bucket <- true.
syncWorkerClassify(w) ==
    /\ Running
    /\ w.pc = "ret"
    /\ ~w.resp.err
    /\ ~statLock
    /\ stats' = Classified(stats, w.resp, unsyncStats(w.b))
    /\ workers' = Moved(workers, w, [NewWorker EXCEPT !.pc = "send"])
    /\ UNCHANGED << cfg, statLock, bSwapLock, b, reqInFlight, supplyI,
                    supplyPc, finalize, tickerOn, tickPending, periodicPc,
                    inCall, lastRet, nCalls, nFramed, crashed,
                    client, nSwapped, dropSeen, reading >>

\* defer atomic.AddInt32(&m.Stats.Concurrency, -1); the goroutine ends.
syncWorkerDec(w) ==
    /\ Running
    /\ w.pc = "dec"
    /\ stats' = [stats EXCEPT !.Concurrency = @ - 1]
    /\ workers' = Ended(workers, w)
    /\ UNCHANGED << cfg, statLock, bSwapLock, b, reqInFlight, supplyI,
                    supplyPc, finalize, tickerOn, tickPending, periodicPc,
                    inCall, lastRet, nCalls, nFramed, crashed,
                    client, nSwapped, dropSeen, reading >>

\* The same deferred decrement in the panicking worker; with no deferred
\* call left and no recover, the runtime ends the process.
syncWorkerPanic(w) ==
    /\ Running
    /\ w.pc = "panicdec"
    /\ stats' = [stats EXCEPT !.Concurrency = @ - 1]
    /\ workers' = Moved(workers, w, [w EXCEPT !.pc = "panicked"])
    /\ crashed' = TRUE
    /\ UNCHANGED << cfg, statLock, bSwapLock, b, reqInFlight, supplyI,
                    supplyPc, finalize, tickerOn, tickPending, periodicPc,
                    inCall, lastRet, nCalls, nFramed,
                    client, nSwapped, dropSeen, reading >>

\* ------------------------------------------------- the periodic goroutine
\* Mutant: every tick spawns a worker, whatever the active Bundle holds.
PeriodicTickAlways ==
    /\ Running
    /\ periodicPc = "select"
    /\ tickerOn \/ tickPending
    /\ tickPending' = FALSE
    /\ ~bSwapLock
    /\ CanSpawn /\ workers' = Spawned(workers)
    /\ UNCHANGED << cfg, stats, statLock, bSwapLock, b, reqInFlight, supplyI,
                    supplyPc, finalize, tickerOn, periodicPc, inCall, lastRet,
                    nCalls, nFramed, crashed, client, nSwapped, dropSeen, reading >>

\* case <-m.ticker.C: and then
\* s := m.c.Statistics(); if s.NumberFramed > 0 { go m.syncWorker() }
\* While the ticker runs a tick can arrive at any time; after Stop only a
\* tick already waiting in m.ticker.C (capacity 1) is left to receive.
PeriodicTick ==
    /\ Running
    /\ periodicPc = "select"
    /\ tickerOn \/ tickPending
    /\ tickPending' = FALSE
    /\ ~bSwapLock
    /\ IF unsyncStats(b).NumberFramed > 0
          THEN CanSpawn /\ workers' = Spawned(workers)
          ELSE workers' = workers
    /\ UNCHANGED << cfg, stats, statLock, bSwapLock, b, reqInFlight, supplyI,
                    supplyPc, finalize, tickerOn, periodicPc, inCall, lastRet,
                    nCalls, nFramed, crashed,
                    client, nSwapped, dropSeen, reading >>

\* case _, _ = <-m.finalize: return
PeriodicFinalize ==
    /\ Running
    /\ periodicPc = "select"
    /\ finalize
    /\ periodicPc' = "exited"
    /\ UNCHANGED << cfg, stats, statLock, bSwapLock, b, reqInFlight, supplyI,
                    supplyPc, finalize, tickerOn, tickPending, inCall,
                    lastRet, nCalls, nFramed, workers, crashed,
                    client, nSwapped, dropSeen, reading >>

\* ------------------------------------------------------------ Client.Close
\* Mutant: Close does not stop the ticker.
CloseNoStop ==
    /\ Running
    /\ ~finalize
    /\ tickPending' \in BOOLEAN
    /\ finalize' = TRUE
    /\ UNCHANGED << cfg, stats, statLock, bSwapLock, b, reqInFlight, supplyI,
                    supplyPc, tickerOn, periodicPc, inCall, lastRet, nCalls,
                    nFramed, workers, crashed, client, nSwapped, dropSeen, reading >>

\* m.ticker.Stop(); close(m.finalize); Close returns.  A tick delivered
\* before Stop may still wait in the channel.  Close is called once (a
\* second close of m.finalize is outside the caller's contract).
Close ==
    /\ Running
    /\ ~finalize
    /\ tickerOn' = FALSE
    /\ tickPending' \in BOOLEAN
    /\ finalize' = TRUE
    /\ UNCHANGED << cfg, stats, statLock, bSwapLock, b, reqInFlight, supplyI,
                    supplyPc, periodicPc, inCall, lastRet, nCalls, nFramed,
                    workers, crashed,
                    client, nSwapped, dropSeen, reading >>

\* ------------------------------------------------------------------ Next
Next ==
    \/ NewClient
    \/ BufferMessageEnter
    \/ BufferMessageBuffer
    \/ SupplyLoop
    \/ \E w \in Live : syncWorkerEnter(w)
    \/ \E w \in Live : syncWorkerAcquireInitial(w)
    \/ \E w \in Live : syncWorkerAcquireReleased(w)
    \/ \E w \in Live : syncWorkerNoToken(w)
    \/ \E w \in Live : PostMessagesSwap(w)
    \/ \E w \in Live : PostMessagesDo(w)
    \/ \E w \in Live : syncWorkerErr(w)
    \/ \E w \in Live : syncWorkerClassify(w)
    \/ \E w \in Live : syncWorkerDec(w)
    \/ \E w \in Live : syncWorkerPanic(w)
    \/ PeriodicTick
    \/ PeriodicFinalize
    \/ Close

Spec == Init /\ [][Next]_vars

\* ================================================================ claims
\* Workers that received a token and have not handed it back yet.
Holding == NumAt({"post", "http", "ret", "send", "panicsend"})

\* C1: in every reachable state the number of workers that hold a permit
\* (acquired and not yet released, so performing or about to perform the
\* POST) is at most Config.Concurrency.
C1_PermitBound == Holding <= cfg.Concurrency

\* C1 witness: every permit is held by a worker inside its POST while one
\* more worker is alive.
C1_Witness ==
    /\ cfg.Concurrency >= 1
    /\ NumAt({"http"}) = cfg.Concurrency
    /\ BagCardinality(workers) > cfg.Concurrency

\* C2: in every state (each is one a Statistics snapshot can return, the
\* updates being atomic under statLock) the request totals equal the sum of
\* the request categories and the message totals the sum of the message
\* categories.  Stats has no DroppedRequests field: drops count nowhere.
C2_StatsSum ==
    /\ stats.TotalRequests =
          stats.CancelRequests + stats.RejectRequests + stats.SuccessRequests
    /\ stats.Total =
          stats.Dropped + stats.Cancelled + stats.Rejected + stats.Successful

\* C2 witness: a success, a rejection and a transport error have all been
\* recorded.
C2_Witness ==
    /\ stats.SuccessRequests >= 1
    /\ stats.RejectRequests >= 1
    /\ stats.CancelRequests >= 1

\* C3: once Close has returned, a BufferMessage call that starts returns the
\* closed-client error in that step and buffers nothing: the active Bundle
\* is unchanged, no worker is spawned and the call does not go on to append.
C3_ClosedRejects ==
    [][(finalize /\ nCalls' # nCalls) =>
          /\ lastRet' = "closed"
          /\ b' = b
          /\ workers' = workers
          /\ inCall' = inCall]_vars

\* C3 witness: a call made after Close has returned the error.
C3_Witness == finalize /\ lastRet = "closed"

\* A worker took the default branch of the select on m.bucket in this step.
DropStep ==
    /\ NumAt({"select"})' = NumAt({"select"}) - 1
    /\ NumAt({"post"})' = NumAt({"post"})

\* C4 as claimed: when the non-blocking acquisition fails, a Drop is
\* recorded: Dropped grows by the message count of the Bundle and the
\* request total by one.
C4_DropRecorded ==
    [][DropStep =>
          /\ stats'.Dropped = stats.Dropped + b.NumberFramed
          /\ stats'.TotalRequests = stats.TotalRequests + 1]_vars

\* C5 as claimed: no POST is ever in flight for a Bundle with no message.
C5_NoEmptyPost == \A w \in Live : w.pc = "http" => w.b.NumberFramed > 0

\* The Stats after exactly one outcome: the category and its request
\* counter, and the two totals, and nothing else.
OneOutcome(st, cat, req, n) ==
    [st EXCEPT ![cat] = @ + n, ![req] = @ + 1,
               !.Total = @ + n, !.TotalRequests = @ + 1]

ExpectedOutcome(st, w) ==
    IF w.resp.err
       THEN OneOutcome(st, "Cancelled", "CancelRequests", w.b.NumberFramed)
       ELSE IF w.resp.StatusCode = StatusNoContent
               THEN OneOutcome(st, "Successful", "SuccessRequests",
                               w.b.NumberFramed)
               ELSE OneOutcome(st, "Rejected", "RejectRequests",
                               w.b.NumberFramed)

\* The worker w, back from PostMessages, takes its next step.
Leaves(w) ==
    /\ w.pc = "ret"
    /\ CopiesIn(w, workers') < CopiesIn(w, workers)

\* C6: a worker back from its POST records exactly the one outcome that
\* matches the result (error: Cancelled; status other than 204: Rejected;
\* 204: Successful), by the Bundle's message count and one request, the
\* totals once; and no other step changes a counter.
C6_OneOutcome ==
    [][/\ \A w \in Live : Leaves(w) => stats' = ExpectedOutcome(stats, w)
       /\ (\A w \in Live : ~Leaves(w)) =>
             [stats' EXCEPT !.Concurrency = 0] =
                [stats EXCEPT !.Concurrency = 0]]_vars

\* C6 witness: the three outcomes have been recorded, a rejection for a
\* Bundle with messages among them.
C6_Witness ==
    /\ stats.CancelRequests = 1
    /\ stats.Rejected >= 1
    /\ stats.SuccessRequests >= 1

\* C7 as claimed: a transport error never makes a worker panic and never
\* ends the process.
C7_NoPanic ==
    /\ Running
    /\ NumAt({"panicsend", "panicdec", "panicked"}) = 0

\* C8 as claimed: in the state where Close returns no POST is in flight.
C8_CloseDrains == [][(~finalize /\ finalize') => reqInFlight' = 0]_vars

\* C9 as claimed: the gauge is never negative and never above the
\* configured permit count.
C9_GaugeBound ==
    /\ stats.Concurrency >= 0
    /\ stats.Concurrency <= cfg.Concurrency

\* The ids of the frames of a Bundle.
Ids(bundle) == {bundle.outbox[i].id : i \in 1..Len(bundle.outbox)}

\* C10: bSwapLock is never held while a POST is in flight, and a
\* BufferMessage that appends meanwhile leaves every Bundle being sent as
\* it was: the new frame is in the active Bundle and in no worker's Bundle.
C10_SwapLockBrief ==
    /\ [](NumAt({"http"}) > 0 => ~bSwapLock)
    /\ [][nFramed' # nFramed =>
             /\ WorkersAt({"http"})' = WorkersAt({"http"})
             /\ nFramed' \in Ids(b')
             /\ \A w \in BagToSet(workers') : nFramed' \notin Ids(w.b)]_vars

\* C10 witness: while a Bundle with messages is being sent, a message
\* appended after the swap sits in the active Bundle.
C10_Witness ==
    \E w \in Live :
        /\ w.pc = "http"
        /\ w.b.NumberFramed > 0
        /\ b.NumberFramed > 0
        /\ \A i \in Ids(w.b), j \in Ids(b) : i < j

\* C11 as claimed: with TargetLogLatency zero NewClient returns a Client,
\* nothing but BufferMessage spawns a worker (there is no periodic task),
\* and every BufferMessage that appends spawns one, whatever the size
\* threshold.
C11_ZeroLatencyImmediate ==
    /\ [](cfg.TargetLogLatency = 0 => client # "panic")
    /\ [][cfg.TargetLogLatency = 0 =>
             BagCardinality(workers') =
                 BagCardinality(workers)
                     + (IF nFramed' # nFramed THEN 1 ELSE 0)
             \/ BagCardinality(workers') < BagCardinality(workers)]_vars

\* C12 as claimed: an invalid configuration (a negative TargetLogLatency)
\* makes NewClient return an error: no panic, no Client and no goroutine.
C12_InvalidConfigError ==
    cfg.TargetLogLatency < 0 =>
        /\ client \in {"new", "error"}
        /\ supplyPc = "loop" /\ supplyI = 0
        /\ workers = EmptyBag

\* Permits the supply goroutine has not handed out yet, permits of workers
\* between acquisition and the end of their request, and permits offered
\* back by workers blocked in their deferred `m.bucket <- true`.
PendingSupply == cfg.Concurrency - supplyI
InUse == NumAt({"post", "http", "ret"})
Offered == NumAt({"send", "panicsend"})

\* C13: permits are conserved: every permit is pending in the initial
\* supply, in use, or offered back by the worker that used it (on the
\* success, the rejection and the transport-error path alike), their total
\* is Config.Concurrency, and when no POST is under way every permit is
\* pending or offered, hence acquirable by the next worker.
C13_PermitsConserved ==
    /\ supplyI \in 0..cfg.Concurrency
    /\ PendingSupply + InUse + Offered = cfg.Concurrency
    /\ InUse = 0 => PendingSupply + Offered = cfg.Concurrency

\* C13 witness: every permit of the initial supply was handed out, a worker
\* on the transport-error path released its permit, and another worker
\* acquired that permit.
C13_Witness ==
    /\ supplyI = cfg.Concurrency
    /\ NumAt({"panicdec"}) >= 1
    /\ InUse >= 1

\* ------------------------------------------- the drops, with their history
\* default: return, as syncWorkerNoToken, and the history variable notes the
\* frames that the active Bundle holds at that moment.
syncWorkerNoTokenNoted(w) ==
    /\ Running
    /\ w.pc = "select"
    /\ supplyPc # "send"
    /\ SendingWorkers = {}
    /\ workers' = Moved(workers, w, [w EXCEPT !.pc = "dec"])
    /\ dropSeen' = dropSeen \cup Ids(b)
    /\ UNCHANGED << cfg, stats, statLock, bSwapLock, b, reqInFlight, supplyI,
                    supplyPc, finalize, tickerOn, tickPending, periodicPc,
                    inCall, lastRet, nCalls, nFramed, crashed, client,
                    nSwapped, reading >>

NextDrops ==
    \/ NewClient
    \/ BufferMessageEnter
    \/ BufferMessageBuffer
    \/ SupplyLoop
    \/ \E w \in Live : syncWorkerEnter(w)
    \/ \E w \in Live : syncWorkerAcquireInitial(w)
    \/ \E w \in Live : syncWorkerAcquireReleased(w)
    \/ \E w \in Live : syncWorkerNoTokenNoted(w)
    \/ \E w \in Live : PostMessagesSwap(w)
    \/ \E w \in Live : PostMessagesDo(w)
    \/ \E w \in Live : syncWorkerErr(w)
    \/ \E w \in Live : syncWorkerClassify(w)
    \/ \E w \in Live : syncWorkerDec(w)
    \/ \E w \in Live : syncWorkerPanic(w)
    \/ PeriodicTick
    \/ PeriodicFinalize
    \/ Close

\* The program with the history of its drops.
SpecDrops == Init /\ [][NextDrops]_vars

\* C14 as claimed: the messages that were in the active Bundle when a
\* worker failed to acquire a permit are discarded with the Bundle that
\* worker swapped out: no request sent later carries any of them.
C14_DroppedNeverPosted ==
    \A w \in Live : w.pc = "http" => Ids(w.b) \cap dropSeen = {}

\* A worker's swap finds the active Bundle empty.
EmptySwapStep ==
    /\ NumAt({"post"})' = NumAt({"post"}) - 1
    /\ b.NumberFramed = 0

\* C15 as claimed: a worker whose swap returns an empty Bundle exits: it
\* sends no request, it holds no permit, and its run leaves every Stats
\* counter as it was.
C15_EmptySwapNoEffect ==
    /\ [][EmptySwapStep =>
             /\ NumAt({"http"})' = NumAt({"http"})
             /\ Holding' = Holding]_vars
    /\ [][\A w \in Live :
             (Leaves(w) /\ w.b.NumberFramed = 0) =>
                 [stats' EXCEPT !.Concurrency = 0] =
                     [stats EXCEPT !.Concurrency = 0]]_vars

\* C16: with a positive TargetLogLatency, a BufferMessage that appends
\* spawns exactly one worker when the length of the active Bundle after
\* that append has reached RequestSizeTrigger, and none otherwise.
C16_SizeTrigger ==
    [][nFramed' # nFramed =>
          /\ cfg.TargetLogLatency > 0
          /\ b'.Buffered = b.Buffered + b'.outbox[Len(b'.outbox)].len
          /\ workers' = IF b'.Buffered >= cfg.RequestSizeTrigger
                           THEN Spawned(workers)
                           ELSE workers]_vars

\* C16 witness: with the threshold at 100 bytes the first append stayed
\* below it and the second one reached it and spawned a worker.
C16_Witness ==
    /\ cfg.RequestSizeTrigger = 100
    /\ b.NumberFramed = 2
    /\ b.Buffered >= cfg.RequestSizeTrigger
    /\ NumAt({"start"}) >= 1

\* C17: a tick the periodic goroutine receives spawns exactly one worker
\* when the message count of the active Bundle, read at that tick, is above
\* zero, and none when it is zero; nothing else but an append spawns.
C17_TimeTrigger ==
    [][/\ PeriodicTick =>
              workers' = IF b.NumberFramed > 0 THEN Spawned(workers)
                                               ELSE workers
       /\ (nFramed' = nFramed
              /\ BagCardinality(workers') > BagCardinality(workers)) =>
              PeriodicTick /\ b.NumberFramed > 0]_vars

\* C17 witness: on an open client one message is buffered, below the size
\* threshold, and a tick has spawned a worker for it.
C17_Witness ==
    /\ ~finalize
    /\ cfg.RequestSizeTrigger = 100
    /\ nFramed = 1
    /\ b.NumberFramed = 1
    /\ NumAt({"start"}) >= 1

\* ------------------------------------------------- the fair specification
\* The periodic goroutine is parked in a select whose finalize case stays
\* ready once the channel is closed, so the Go scheduler runs it.
FairSpec == Spec /\ WF_vars(PeriodicFinalize)

\* The periodic goroutine is gone: it returned, or the process ended.
PeriodicGone == periodicPc = "exited" \/ crashed

SwapStep == reqInFlight' = reqInFlight + 1

\* C19: the swap hands every message off exactly once: the messages of all
\* Bundles swapped out so far and those of the active Bundle add up to the
\* appends that succeeded, no frame is in two Bundles, and a swap gives the
\* worker the active Bundle as it was and leaves an empty active Bundle
\* (count 0, length 0, no frame).
C19_HandOffOnce ==
    /\ [](nSwapped + b.NumberFramed = nFramed)
    /\ [](\A w \in Live :
             w.b.outbox # << >> =>
                 /\ workers[w] = 1
                 /\ Ids(w.b) \cap Ids(b) = {}
                 /\ \A x \in Live \ {w} : Ids(x.b) \cap Ids(w.b) = {})
    /\ [][SwapStep =>
             /\ b' = EmptyBundle
             /\ nSwapped' = nSwapped + b.NumberFramed
             /\ \E w \in BagToSet(workers') :
                    w.pc = "http" /\ w.b = b]_vars

\* C19 witness: one message went out with a swapped Bundle that is being
\* sent and a later one sits in the active Bundle.
C19_Witness ==
    /\ nSwapped = 1
    /\ b.NumberFramed = 1
    /\ \E w \in Live : w.pc = "http" /\ w.b.NumberFramed = 1

\* The Bundles that exist: the active one and those the workers hold.
Bundles == {b} \cup {w.b : w \in Live}

RECURSIVE SumFrameLens(_, _)
SumFrameLens(box, n) ==
    IF n = 0 THEN 0 ELSE box[n].len + SumFrameLens(box, n - 1)

\* C21: the length of every Bundle (the Buffered that BufferMessage
\* returns for the active one) is the sum of the lengths of the frames
\* written to it since the last swap; the active length never shrinks
\* except at a swap, and a swap resets it to zero.
C21_BufferedIsSum ==
    /\ [](\A bundle \in Bundles :
             bundle.Buffered = SumFrameLens(bundle.outbox, Len(bundle.outbox)))
    /\ [][nFramed' # nFramed =>
             \E l \in LogLens :
                 /\ b'.outbox[Len(b'.outbox)].len = FrameLen(l)
                 /\ unsyncStats(b').Buffered = b.Buffered + FrameLen(l)]_vars
    /\ [][IF SwapStep THEN b'.Buffered = 0
                      ELSE b'.Buffered >= b.Buffered]_vars

\* C21 witness: two appends without a swap between them: the active
\* Bundle's length is that of both frames, 124 bytes.
C21_Witness ==
    /\ nSwapped = 0
    /\ Len(b.outbox) = 2
    /\ b.Buffered = FrameLen(1) + FrameLen(1)
    /\ b.Buffered = 124

\* --------------------------------------------- the fair worker goroutines
\* The Go scheduler runs every goroutine that can take a step: the supply
\* goroutine, the periodic goroutine's return and every step of a worker;
\* HttpClient.Do returns (every exchange completes).  Callers, ticks and
\* Close are the environment's and need not happen.
FairWorkers ==
    /\ Spec
    /\ WF_vars(SupplyLoop)
    /\ WF_vars(PeriodicFinalize)
    /\ WF_vars(\E w \in Live : syncWorkerEnter(w))
    /\ WF_vars(\E w \in Live : syncWorkerAcquireInitial(w))
    /\ WF_vars(\E w \in Live : syncWorkerAcquireReleased(w))
    /\ WF_vars(\E w \in Live : syncWorkerNoToken(w))
    /\ WF_vars(\E w \in Live : PostMessagesSwap(w))
    /\ WF_vars(\E w \in Live : PostMessagesDo(w))
    /\ WF_vars(\E w \in Live : syncWorkerErr(w))
    /\ WF_vars(\E w \in Live : syncWorkerClassify(w))
    /\ WF_vars(\E w \in Live : syncWorkerDec(w))
    /\ WF_vars(\E w \in Live : syncWorkerPanic(w))

\* No trigger can fire any more and every exchange has completed: the
\* client is closed, no caller is inside BufferMessage, nothing is
\* buffered, and every live worker has its outcome recorded.
Quiet ==
    /\ Running
    /\ finalize
    /\ inCall = 0
    /\ b.NumberFramed = 0
    /\ \A w \in Live : w.pc \in {"send", "dec"}

\* C22 as claimed: once no trigger fires and every exchange has completed,
\* all workers terminate and the gauge returns to 0, with no other worker
\* arriving to take the released permits.
C22_WorkersTerminate ==
    Quiet ~> (workers = EmptyBag /\ stats.Concurrency = 0)

\* ------------------------------------------- the locks, one step at a time
\* Here statLock and bSwapLock are taken in one step and released in a
\* later one, so that a goroutine can wait for a lock while it holds the
\* other.  Workers hold statLock at "statlocked" and bSwapLock at
\* "swaplocked", the periodic goroutine holds bSwapLock at "stats", a caller
\* of Client.Statistics holds statLock while reading; otherwise the holder
\* of statLock is a caller of BufferMessage.
CallerHolds == statLock /\ ~reading /\ NumAt({"statlocked"}) = 0

\* `go m.syncWorker()`; goroutines beyond MaxWorkers are not followed (a
\* goroutine that has not run yet touches no lock).
SpawnedIfRoom(ws) == IF CanSpawn THEN Spawned(ws) ELSE ws

\* m.statLock.Lock() in BufferMessage
BufferMessageLock ==
    /\ Running
    /\ inCall > 0
    /\ ~statLock
    /\ statLock' = TRUE
    /\ UNCHANGED << cfg, stats, bSwapLock, b, reqInFlight, supplyI, supplyPc,
                    finalize, tickerOn, tickPending, periodicPc, inCall,
                    lastRet, nCalls, nFramed, workers, crashed, client,
                    nSwapped, dropSeen, reading >>

\* s := m.c.BufferMessage(...) under bSwapLock, the size trigger, the
\* deferred m.statLock.Unlock(), return nil.
BufferMessageAppend ==
    /\ Running
    /\ CallerHolds
    /\ ~bSwapLock
    /\ \E l \in LogLens :
          LET nb == MiniBufferMessage(b, nFramed + 1, l)
              s == unsyncStats(nb)
          IN  /\ b' = nb
              /\ workers' = IF SizeTriggered(s) THEN SpawnedIfRoom(workers)
                                                ELSE workers
    /\ nFramed' = nFramed + 1
    /\ inCall' = inCall - 1
    /\ lastRet' = "nil"
    /\ statLock' = FALSE
    /\ UNCHANGED << cfg, stats, bSwapLock, reqInFlight, supplyI, supplyPc,
                    finalize, tickerOn, tickPending, periodicPc, nCalls,
                    crashed, client, nSwapped, dropSeen, reading >>

\* Client.Statistics: m.statLock.Lock()
StatisticsLock ==
    /\ Running
    /\ ~statLock
    /\ statLock' = TRUE
    /\ reading' = TRUE
    /\ UNCHANGED << cfg, stats, bSwapLock, b, reqInFlight, supplyI, supplyPc,
                    finalize, tickerOn, tickPending, periodicPc, inCall,
                    lastRet, nCalls, nFramed, workers, crashed, client,
                    nSwapped, dropSeen >>

\* Client.Statistics: s = m.Stats; the deferred m.statLock.Unlock()
StatisticsUnlock ==
    /\ Running
    /\ reading
    /\ statLock' = FALSE
    /\ reading' = FALSE
    /\ UNCHANGED << cfg, stats, bSwapLock, b, reqInFlight, supplyI, supplyPc,
                    finalize, tickerOn, tickPending, periodicPc, inCall,
                    lastRet, nCalls, nFramed, workers, crashed, client,
                    nSwapped, dropSeen >>

\* PostMessages: c.bSwapLock.Lock()
PostMessagesLock(w) ==
    /\ Running
    /\ w.pc = "post"
    /\ ~bSwapLock
    /\ bSwapLock' = TRUE
    /\ workers' = Moved(workers, w, [w EXCEPT !.pc = "swaplocked"])
    /\ UNCHANGED << cfg, stats, statLock, b, reqInFlight, supplyI, supplyPc,
                    finalize, tickerOn, tickPending, periodicPc, inCall,
                    lastRet, nCalls, nFramed, crashed, client, nSwapped,
                    dropSeen, reading >>

\* PostMessages: the swap, the deferred c.bSwapLock.Unlock(),
\* c.reqInFlight.Add(1).
PostMessagesSwapLocked(w) ==
    /\ Running
    /\ w.pc = "swaplocked"
    /\ workers' = Moved(workers, w, [w EXCEPT !.pc = "http", !.b = b])
    /\ b' = SwapReset
    /\ nSwapped' = nSwapped + b.NumberFramed
    /\ bSwapLock' = SwapUnlock
    /\ reqInFlight' = reqInFlight + 1
    /\ UNCHANGED << cfg, stats, statLock, supplyI, supplyPc, finalize,
                    tickerOn, tickPending, periodicPc, inCall, lastRet,
                    nCalls, nFramed, crashed, client, dropSeen, reading >>

\* statReqErr / statReqSuccess / statReqRej: m.statLock.Lock()
statReqLock(w) ==
    /\ Running
    /\ w.pc = "ret"
    /\ ~statLock
    /\ statLock' = TRUE
    /\ workers' = Moved(workers, w, [w EXCEPT !.pc = "statlocked"])
    /\ UNCHANGED << cfg, stats, bSwapLock, b, reqInFlight, supplyI, supplyPc,
                    finalize, tickerOn, tickPending, periodicPc, inCall,
                    lastRet, nCalls, nFramed, crashed, client, nSwapped,
                    dropSeen, reading >>

\* The update, the deferred m.statLock.Unlock(), and what syncWorker does
\* next: the nil dereference after an error, the return otherwise.
statReqRecord(w) ==
    /\ Running
    /\ w.pc = "statlocked"
    /\ stats' = IF w.resp.err THEN statReqErr(stats, unsyncStats(w.b))
                              ELSE Classified(stats, w.resp, unsyncStats(w.b))
    /\ statLock' = FALSE
    /\ workers' =
          Moved(workers, w,
                [NewWorker EXCEPT !.pc = IF w.resp.err THEN "panicsend"
                                                       ELSE "send"])
    /\ UNCHANGED << cfg, bSwapLock, b, reqInFlight, supplyI, supplyPc,
                    finalize, tickerOn, tickPending, periodicPc, inCall,
                    lastRet, nCalls, nFramed, crashed, client, nSwapped,
                    dropSeen, reading >>

\* case <-m.ticker.C: and MiniClient.Statistics: c.bSwapLock.Lock()
PeriodicStatisticsLock ==
    /\ Running
    /\ periodicPc = "select"
    /\ tickerOn \/ tickPending
    /\ ~bSwapLock
    /\ tickPending' = FALSE
    /\ bSwapLock' = TRUE
    /\ periodicPc' = "stats"
    /\ UNCHANGED << cfg, stats, statLock, b, reqInFlight, supplyI, supplyPc,
                    finalize, tickerOn, inCall, lastRet, nCalls, nFramed,
                    workers, crashed, client, nSwapped, dropSeen, reading >>

\* MiniClient.Statistics returns (bSwapLock released);
\* if s.NumberFramed > 0 { go m.syncWorker() }
PeriodicSpawn ==
    /\ Running
    /\ periodicPc = "stats"
    /\ bSwapLock' = FALSE
    /\ periodicPc' = "select"
    /\ workers' = IF unsyncStats(b).NumberFramed > 0
                     THEN SpawnedIfRoom(workers)
                     ELSE workers
    /\ UNCHANGED << cfg, stats, statLock, b, reqInFlight, supplyI, supplyPc,
                    finalize, tickerOn, tickPending, inCall, lastRet, nCalls,
                    nFramed, crashed, client, nSwapped, dropSeen, reading >>

NextLocks ==
    \/ NewClient
    \/ BufferMessageEnter
    \/ BufferMessageLock
    \/ BufferMessageAppend
    \/ StatisticsLock
    \/ StatisticsUnlock
    \/ SupplyLoop
    \/ \E w \in Live : syncWorkerEnter(w)
    \/ \E w \in Live : syncWorkerAcquireInitial(w)
    \/ \E w \in Live : syncWorkerAcquireReleased(w)
    \/ \E w \in Live : syncWorkerNoToken(w)
    \/ \E w \in Live : PostMessagesLock(w)
    \/ \E w \in Live : PostMessagesSwapLocked(w)
    \/ \E w \in Live : PostMessagesDo(w)
    \/ \E w \in Live : statReqLock(w)
    \/ \E w \in Live : statReqRecord(w)
    \/ \E w \in Live : syncWorkerDec(w)
    \/ \E w \in Live : syncWorkerPanic(w)
    \/ PeriodicStatisticsLock
    \/ PeriodicSpawn
    \/ PeriodicFinalize
    \/ Close

SpecLocks == Init /\ [][NextLocks]_vars

\* Fair scheduling for the callers: a goroutine that holds a lock and can
\* release it is run (none of the four critical sections blocks inside),
\* and a caller waiting in Lock() gets the lock if it keeps becoming free
\* (sync.Mutex hands the lock to a starving waiter).  Nothing is assumed
\* of HttpClient.Do, of the ticks or of the other calls.
FairLocks ==
    /\ SpecLocks
    /\ SF_vars(BufferMessageLock)
    /\ SF_vars(BufferMessageAppend)
    /\ WF_vars(StatisticsUnlock)
    /\ WF_vars(PeriodicSpawn)
    /\ WF_vars(\E w \in Live : PostMessagesSwapLocked(w))
    /\ WF_vars(\E w \in Live : statReqRecord(w))

\* C23 as claimed: every BufferMessage call that got past the finalize
\* check returns, whatever the workers, the ticks and the Statistics calls
\* do and even if no POST ever completes.
C23_ProducerReturns == (inCall > 0) ~> (inCall = 0)

\* The same for as long as the process lives.
ProducerReturnsOrCrash == (inCall > 0) ~> (inCall = 0 \/ crashed)

====
